---- MODULE Spec2Model ----
(***************************************************************************)
(* Model of the village population dashboard: the village-marriage mapping *)
(* (src/pop_utils.py), the population synthesis run and the lazy prune of  *)
(* the generation history (src/database.py), the JSON history file         *)
(* (src/utils.py), the user management page (src/auth.py) and the callers  *)
(* in src/main.py and src/ui.py.                                           *)
(***************************************************************************)
EXTENDS Integers, Sequences, FiniteSets, TLC

VARIABLES
    udf,        \* the last call of get_marriage_to_village_id: arguments and outcome
    base_df,    \* the normalized base dataset returned by load_base_data()
    files,      \* the database files on disk: path -> content, NoFile when absent
    history,    \* content of HISTORY_FILE: owner -> sequence of entries
    users,      \* content of USER_FILE: the set of user names
    sess,       \* per browser session: position in the running handler, locals, st.session_state
    clock,      \* the wall clock read by datetime.now()
    runs,       \* number of generate_database calls started so far
    disk,       \* the base dataset's files: BASE_EXCEL and the cache BASE_PARQUET
    loader      \* per invocation of load_base_data: position, df, outcome

vars == <<udf, base_df, files, history, users, sess, clock, runs, disk, loader>>

-----------------------------------------------------------------------------
(* Program constants *)

MIN_VILLAGES == 28
MAX_VILLAGES == 280
CYCLE == 196
mod == 28

-----------------------------------------------------------------------------
(* src/pop_utils.py: get_marriage_to_village_id *)

\* a plausible slip in line 15: a cycle of six blocks of 28 instead of seven
MutReduceCounter(counter) == ((counter - 1) % 168) + 1

\* line 15: counter = ((counter - 1) % 196) + 1
ReduceCounter(counter) == ((counter - 1) % CYCLE) + 1

\* line 18: block = (counter - 1) // 28, on the reduced counter
Block(counter) == (ReduceCounter(counter) - 1) \div 28

\* line 19: base_add = 1 + 4 * block
BaseAdd(counter) == 1 + 4 * Block(counter)

\* line 22: pos = counter - 28 * block, on the reduced counter
Pos(counter) == ReduceCounter(counter) - 28 * Block(counter)

\* a plausible slip in line 25: the offset pairs start one position early
MutAdd(counter) ==
    IF Pos(counter) % 4 = 0 \/ Pos(counter) % 4 = 1
    THEN BaseAdd(counter)
    ELSE BaseAdd(counter) + 2

\* lines 25-28
Add(counter) ==
    IF Pos(counter) % 4 = 1 \/ Pos(counter) % 4 = 2
    THEN BaseAdd(counter)
    ELSE BaseAdd(counter) + 2

\* a plausible slip in line 31: village_id // 28 instead of (village_id - 1) // 28
MutBase(village_id) == (village_id \div 28) * 28

\* line 31: base = ((village_id - 1) // 28) * 28
Base(village_id) == ((village_id - 1) \div 28) * 28

\* a plausible slip in line 36: the sum is not wrapped into the block
MutMapResult(village_id, counter) ==
    LET local_id == village_id - Base(village_id)
    IN  local_id + Add(counter) + Base(village_id)

\* lines 35-36
MapResult(village_id, counter) ==
    LET local_id == village_id - Base(village_id)
    IN  ((local_id + Add(counter) - 1) % mod) + 1 + Base(village_id)

\* a plausible slip in lines 9-12: arguments below 1 are clamped to 1
MutGetMarriage(village_id, counter) ==
    [raised |-> "none",
     value  |-> MapResult(IF village_id >= 1 THEN village_id ELSE 1,
                          IF counter >= 1 THEN counter ELSE 1)]

\* The whole function: the two guards of lines 9-12 raise ValueError, otherwise
\* the result of line 36 is returned.
get_marriage_to_village_id(village_id, counter) ==
    IF ~(village_id >= 1) THEN [raised |-> "ValueError", value |-> 0]
    ELSE IF ~(counter >= 1) THEN [raised |-> "ValueError", value |-> 0]
    ELSE [raised |-> "none", value |-> MapResult(village_id, counter)]

-----------------------------------------------------------------------------
(* Bounds of the mapping specification *)

MaxMapVillage == 57
MaxMapCounter == 394

MapVillages == (-1) .. MaxMapVillage
MapCounters == (-1) .. MaxMapCounter

-----------------------------------------------------------------------------
(* Values *)

\* SQL NULL / Python None for a nullable column, and a present value
Null == {}
Some(x) == {x}

\* f"villages_{username}_{db_id}.db": a path is determined by the pair
DbPath(username, db_id) == <<username, db_id>>

\* st.session_state defaults db_id and db_path to None (src/main.py line 41)
NoDbId == "None"
NoPath == <<>>

\* os.path.exists(p) is false: no file at the path
NoFile == [exists |-> FALSE, seq |-> 0, has_table |-> FALSE, rows |-> <<>>, indexed |-> FALSE]

\* load_json on a missing file, or "{}": the empty dict
EmptyDict == [u \in {} |-> <<>>]

\* dict.get(key, [])
Get(d, key) == IF key \in DOMAIN d THEN d[key] ELSE <<>>

\* d[key] = value on a dict
Put(d, key, value) == [k \in (DOMAIN d) \cup {key} |-> IF k = key THEN value ELSE d[k]]

\* d.pop(key, None)
Pop(d, key) == [k \in (DOMAIN d) \ {key} |-> d[k]]

-----------------------------------------------------------------------------
(* src/database.py: the INSERT ... SELECT of generate_database, lines 87-114 *)

\* line 93: SELECT *, row_number() OVER () - 1 as idx FROM base_df
base_with_idx(df) == [i \in 1 .. Len(df) |-> [rec |-> df[i], idx |-> i - 1]]

\* a plausible slip in line 96: range(1, num_villages) leaves the last village out
MutVillages(num_villages) == 1 .. (num_villages - 1)

\* line 96: SELECT range as vid FROM range(1, num_villages + 1)
villages(num_villages) == 1 .. num_villages

\* a plausible slip in lines 104-107: idx counted from 1 in the parity test
MutGender(idx, vid) ==
    IF ((idx + 1) % 2 = 0) = (vid % 2 = 1) THEN "MALE" ELSE "FEMALE"

\* lines 104-107: CASE WHEN ((b.idx % 2 = 0) = (v.vid % 2 = 1)) THEN 'MALE' ELSE 'FEMALE' END
Gender(idx, vid) ==
    IF (idx % 2 = 0) = (vid % 2 = 1) THEN "MALE" ELSE "FEMALE"

\* lines 98-109: the SELECT list for one pair of the cross join (SERIAL_NO is
\* not in the column list of the INSERT: it is filled from the sequence)
SelectRow(vid, b) ==
    [ COUNTER               |-> b.rec.COUNTER,
      FAMILY_ID             |-> b.rec.FAMILY_ID,
      PERSON_ID             |-> b.rec.PERSON_ID,
      BIRTH_DATE            |-> b.rec.BIRTH_DATE_SERIAL,
      VILLAGE_ID            |-> vid,
      GENDER                |-> Gender(b.idx, vid),
      Date_of_Birth         |-> b.rec.Date_of_Birth,
      MARRIED_TO_VILLAGE_ID |-> get_marriage_to_village_id(vid, b.rec.COUNTER).value ]

\* line 110: FROM villages v, base_with_idx b -- the cross join, as the set of
\* pairs <<vid, idx>>
CrossJoin(num_villages, df) ==
    { <<vid, b.idx>> : vid \in villages(num_villages),
                       b \in { base_with_idx(df)[i] : i \in 1 .. Len(df) } }

\* the largest key of a set of naturals, 0 for the empty set
MaxKey(S) == IF S = {} THEN 0 ELSE CHOOSE m \in S : \A x \in S : x <= m

\* the pairs of J with first key a (when byFirst) or second key a (otherwise),
\* in ascending order of the other key, from b on
RECURSIVE Minor(_, _, _, _, _)
Minor(J, byFirst, a, b, hi) ==
    IF b > hi THEN <<>>
    ELSE LET p == IF byFirst THEN <<a, b>> ELSE <<b, a>>
         IN  (IF p \in J THEN <<p>> ELSE <<>>) \o Minor(J, byFirst, a, b + 1, hi)

\* the pairs of J in ascending order of the major key, then of the minor key
RECURSIVE Major(_, _, _, _, _)
Major(J, byFirst, a, hiMajor, hiMinor) ==
    IF a > hiMajor THEN <<>>
    ELSE Minor(J, byFirst, a, 0, hiMinor) \o Major(J, byFirst, a + 1, hiMajor, hiMinor)

\* a plausible slip in line 111: ORDER BY b.idx, v.vid
MutOrderBy(J) ==
    Major(J, FALSE, 0, MaxKey({ p[2] : p \in J }), MaxKey({ p[1] : p \in J }))

\* line 111: ORDER BY v.vid, b.idx -- village ascending, then idx ascending
OrderBy(J) ==
    Major(J, TRUE, 0, MaxKey({ p[1] : p \in J }), MaxKey({ p[2] : p \in J }))

\* the UDF raises inside the query when a COUNTER of the base data is below 1
\* (src/pop_utils.py lines 11-12); the statement then fails and inserts nothing
UdfRaises(num_villages, df) ==
    \E p \in CrossJoin(num_villages, df) :
        get_marriage_to_village_id(p[1], df[p[2] + 1].COUNTER).raised # "none"

\* lines 87-114: the rows the statement appends in the order of the ORDER BY,
\* each given the next value of the sequence seq as its SERIAL_NO (line 65)
InsertedRows(nextval, num_villages, df) ==
    LET b   == base_with_idx(df)
        ord == OrderBy(CrossJoin(num_villages, df))
    IN  [ k \in 1 .. Len(ord) |->
            [ SERIAL_NO |-> nextval + k - 1 ] @@ SelectRow(ord[k][1], b[ord[k][2] + 1]) ]

-----------------------------------------------------------------------------
(* Bounds and input sets *)

MaxBlocks == 2      \* valid village counts are 28 * k for k in 1 .. MaxBlocks
MaxBase == 3        \* longest base dataset drawn by the synthesis specification
MaxRuns == 2        \* generate_database calls in one behaviour of the application

AllUsers == {"admin", "u1"}
Sessions == {"s1", "s2"}
\* values of str(uuid.uuid4())[:8] (src/database.py line 40)
DbIds == {"1b9d6bcd", "9c5b94b1"}
Paths == { DbPath(u, i) : u \in AllUsers, i \in DbIds }

\* village counts inside the configured range that are multiples of 28
ValidCounts == { n \in { 28 * k : k \in 1 .. MaxBlocks } : MIN_VILLAGES <= n /\ n <= MAX_VILLAGES }

\* counts a caller of generate_database can pass that the range excludes
InvalidCounts == {0, 30}

\* base records: COUNTER below 1, in the first block, in the second block and
\* past the 196-cycle; birth date absent or present
BaseRows ==
    { [COUNTER |-> 0,   FAMILY_ID |-> 1, PERSON_ID |-> 1, BIRTH_DATE_SERIAL |-> Null,    Date_of_Birth |-> Null],
      [COUNTER |-> 1,   FAMILY_ID |-> 1, PERSON_ID |-> 1, BIRTH_DATE_SERIAL |-> Some(2), Date_of_Birth |-> Some("Monday, January 01, 1900")],
      [COUNTER |-> 31,  FAMILY_ID |-> 1, PERSON_ID |-> 2, BIRTH_DATE_SERIAL |-> Null,    Date_of_Birth |-> Null],
      [COUNTER |-> 199, FAMILY_ID |-> 2, PERSON_ID |-> 1, BIRTH_DATE_SERIAL |-> Some(3), Date_of_Birth |-> Some("Tuesday, January 02, 1900")] }

\* all base datasets of at most n records
RECURSIVE SeqsUpTo(_, _)
SeqsUpTo(S, n) ==
    IF n = 0 THEN { <<>> }
    ELSE LET shorter == SeqsUpTo(S, n - 1)
         IN  shorter \cup { Append(q, x) : q \in { t \in shorter : Len(t) = n - 1 }, x \in S }

-----------------------------------------------------------------------------
(* Sessions *)

\* st.session_state after the defaults of src/main.py lines 41-42.  Two keys
\* are not carried in the state: history, which main() reloads from the file
\* at the start of every script run (line 11) before anything reads it, and
\* db_version, a counter only the chart cache of the visualizations reads.
SessionDefaults ==
    [ num_villages |-> 28, db_generated |-> FALSE, db_id |-> NoDbId, db_path |-> NoPath ]

\* the locals of the handler a session runs; reset when the handler returns
NoLocals ==
    [ num_villages |-> 0, db_id |-> NoDbId, db_path |-> NoPath,
      history |-> EmptyDict, users |-> {}, path |-> NoPath ]

NewSession(username) ==
    [ username |-> username, pc |-> "idle", raised |-> "none", message |-> "",
      loc |-> NoLocals, ss |-> SessionDefaults ]

\* a run of generate_database by another session has the file at p open
InUse(s, p) ==
    \E t \in Sessions \ {s} :
        sess[t].pc \in {"gen_insert", "gen_finish"} /\ sess[t].loc.db_path = p

-----------------------------------------------------------------------------
(* src/database.py: generate_database *)

\* lines 39-75: name the output file, remove an old file of that name, connect
\* (which creates the file), create the sequence and the empty table.  There
\* is no check of num_villages anywhere in the function.
GenBegin(s, num_villages) ==
    /\ runs < MaxRuns
    /\ \E db_id \in DbIds :
          LET db_path == DbPath(sess[s].username, db_id)
          IN  /\ ~InUse(s, db_path)
              /\ files' = [files EXCEPT ![db_path] =
                              [exists |-> TRUE, seq |-> 1, has_table |-> TRUE,
                               rows |-> <<>>, indexed |-> FALSE]]
              /\ sess' = [sess EXCEPT ![s].pc = "gen_insert",
                                      ![s].raised = "none",
                                      ![s].message = "",
                                      ![s].loc.num_villages = num_villages,
                                      ![s].loc.db_id = db_id,
                                      ![s].loc.db_path = db_path]
    /\ runs' = runs + 1
    /\ UNCHANGED <<disk, loader, udf, base_df, history, users, clock>>

\* a call of generate_database(num_villages) by any caller, with any count
generate_database(s, num_villages) ==
    /\ sess[s].pc = "idle"
    /\ GenBegin(s, num_villages)

\* line 114: con.execute(query).  A failing UDF call aborts the statement and
\* the exception leaves generate_database: nothing closes the connection or
\* removes the file.
gen_insert(s) ==
    /\ sess[s].pc = "gen_insert"
    /\ LET p == sess[s].loc.db_path
           n == sess[s].loc.num_villages
       IN  IF UdfRaises(n, base_df)
           THEN /\ sess' = [sess EXCEPT ![s].pc = "idle", ![s].raised = "ValueError",
                                        ![s].loc = NoLocals]
                /\ UNCHANGED files
           ELSE /\ files' = [files EXCEPT
                       ![p].rows = @ \o InsertedRows(files[p].seq, n, base_df),
                       ![p].seq = @ + Len(InsertedRows(files[p].seq, n, base_df))]
                /\ sess' = [sess EXCEPT ![s].pc = "gen_finish"]
    /\ UNCHANGED <<disk, loader, udf, base_df, history, users, clock, runs>>

\* lines 115-131: create the index, count, close; update the session state;
\* history = load_json(HISTORY_FILE)
gen_finish(s) ==
    /\ sess[s].pc = "gen_finish"
    /\ files' = [files EXCEPT ![sess[s].loc.db_path].indexed = TRUE]
    /\ sess' = [sess EXCEPT ![s].pc = "gen_save",
                            ![s].ss.db_path = sess[s].loc.db_path,
                            ![s].ss.db_generated = TRUE,
                            ![s].ss.num_villages = sess[s].loc.num_villages,
                            ![s].ss.db_id = sess[s].loc.db_id,
                            ![s].loc.history = history]
    /\ UNCHANGED <<disk, loader, udf, base_df, history, users, clock, runs>>

\* the entry appended at lines 132-137
Entry(db_id, db_path, num_villages, created_at) ==
    [db_id |-> db_id, db_path |-> db_path, num_villages |-> num_villages,
     created_at |-> created_at]

\* lines 132-139: append the entry to the loaded dict and save_json it over
\* the file.  datetime.now() is the clock, which has moved on since the last
\* entry was written.
gen_save(s) ==
    /\ sess[s].pc = "gen_save"
    /\ clock' = clock + 1
    /\ LET u == sess[s].username
           l == sess[s].loc
           h == Put(l.history, u,
                    Append(Get(l.history, u),
                           Entry(l.db_id, l.db_path, l.num_villages, clock')))
       IN  /\ history' = h
           /\ sess' = [sess EXCEPT ![s].pc = "idle", ![s].loc = NoLocals]
    /\ UNCHANGED <<disk, loader, udf, base_df, files, users, runs>>

\* a plausible slip: the entry is written before the statements of lines
\* 114-118, so that a run failing there has already written it
MutStorageError(s) ==
    /\ sess[s].pc \in {"gen_insert", "gen_finish"}
    /\ history' = Put(history, sess[s].username,
                      Append(Get(history, sess[s].username),
                             Entry(sess[s].loc.db_id, sess[s].loc.db_path,
                                   sess[s].loc.num_villages, clock)))
    /\ sess' = [sess EXCEPT ![s].pc = "idle", ![s].raised = "StorageError",
                            ![s].loc = NoLocals]
    /\ UNCHANGED <<disk, loader, udf, base_df, files, users, clock, runs>>

\* a statement of lines 114-118 fails in the storage layer: the exception
\* leaves generate_database, which has no handler and no cleanup
storage_error(s) ==
    /\ sess[s].pc \in {"gen_insert", "gen_finish"}
    /\ sess' = [sess EXCEPT ![s].pc = "idle", ![s].raised = "StorageError",
                            ![s].loc = NoLocals]
    /\ UNCHANGED <<disk, loader, udf, base_df, files, history, users, clock, runs>>

-----------------------------------------------------------------------------
(* src/ui.py: main_tabs, tab 1 *)

\* what the number_input of lines 159-166 lets through: any value in the range
WidgetValues == {MIN_VILLAGES, 30}

\* lines 157-180: the admin presses Generate or Regenerate
click_generate(s, num) ==
    /\ sess[s].pc = "idle"
    /\ sess[s].username = "admin"
    /\ num \in WidgetValues
    /\ IF num % 28 # 0
       THEN /\ sess' = [sess EXCEPT ![s].raised = "none", ![s].message =
                           "Number of villages must be a multiple of 28!"]
            /\ UNCHANGED <<disk, loader, udf, base_df, files, history, users, clock, runs>>
       ELSE GenBegin(s, num)

\* lines 181-220: another user loads one of the admin's databases
select_database(s, k) ==
    /\ sess[s].pc = "idle"
    /\ sess[s].username # "admin"
    /\ LET admin_dbs == Get(history, "admin")
       IN  /\ k \in 1 .. Len(admin_dbs)
           /\ IF files[admin_dbs[k].db_path].exists
              THEN sess' = [sess EXCEPT ![s].ss.db_path = admin_dbs[k].db_path,
                                        ![s].ss.db_generated = TRUE,
                                        ![s].ss.num_villages = admin_dbs[k].num_villages,
                                        ![s].ss.db_id = admin_dbs[k].db_id,
                                        ![s].raised = "none",
                                        ![s].message = ""]
              ELSE sess' = [sess EXCEPT ![s].raised = "none",
                                        ![s].message = "Database file not found on server."]
    /\ UNCHANGED <<disk, loader, udf, base_df, files, history, users, clock, runs>>

\* lines 225-237 of tab 2: with a database selected, the schema check opens
\* the file with a writable duckdb.connect, which creates an empty database
\* file when there is none; PRAGMA table_info then fails and the exception is
\* swallowed (line 236).  A table made by generate_database has the column
\* MARRIED_TO_VILLAGE_ID (src/database.py line 73), so line 232 is false for
\* it and no ALTER runs; a file another session is writing cannot be opened,
\* which is swallowed as well.  The queries of lines 239-283 and the charts of
\* tab 3 use read_only connections.  The st.warning and st.error texts of the
\* tab are not part of the state.
sql_explorer(s) ==
    /\ sess[s].pc = "idle"
    /\ sess[s].ss.db_generated
    /\ LET p == sess[s].ss.db_path
       IN  IF ~files[p].exists
           THEN files' = [files EXCEPT ![p] =
                             [exists |-> TRUE, seq |-> 0, has_table |-> FALSE,
                              rows |-> <<>>, indexed |-> FALSE]]
           ELSE UNCHANGED files
    /\ UNCHANGED <<disk, loader, udf, base_df, history, users, sess, clock, runs>>

-----------------------------------------------------------------------------
(* src/main.py lines 11, 45-50 and src/database.py: load_db_from_history *)

\* main() loads the history, the user selects entry k of the own list, and
\* load_db_from_history(path) tests the file (lines 150-158)
load_db_from_history(s, k) ==
    /\ sess[s].pc = "idle"
    /\ LET user_hist == Get(history, sess[s].username)
       IN  /\ k \in 1 .. Len(user_hist)
           /\ IF files[user_hist[k].db_path].exists
              THEN sess' = [sess EXCEPT ![s].ss.db_path = user_hist[k].db_path,
                                        ![s].ss.db_generated = TRUE,
                                        ![s].raised = "none",
                                        ![s].message = ""]
              ELSE sess' = [sess EXCEPT ![s].pc = "prune_load",
                                        ![s].raised = "none",
                                        ![s].loc.path = user_hist[k].db_path,
                                        ![s].message = "Database file not found! Removing from history..."]
    /\ UNCHANGED <<disk, loader, udf, base_df, files, history, users, clock, runs>>

\* line 160: history = load_json(HISTORY_FILE)
prune_load(s) ==
    /\ sess[s].pc = "prune_load"
    /\ sess' = [sess EXCEPT ![s].pc = "prune_save", ![s].loc.history = history]
    /\ UNCHANGED <<disk, loader, udf, base_df, files, history, users, clock, runs>>

\* line 162: [e for e in history[username] if e["db_path"] != path]
Filtered(entries, path) == SelectSeq(entries, LAMBDA e : e.db_path # path)

\* lines 161-165: filter the own list, save, rerun
prune_save(s) ==
    /\ sess[s].pc = "prune_save"
    /\ LET u == sess[s].username
           l == sess[s].loc
       IN  IF u \in DOMAIN l.history
           THEN LET h == Put(l.history, u, Filtered(l.history[u], l.path))
                IN  /\ history' = h
                    /\ sess' = [sess EXCEPT ![s].pc = "idle", ![s].loc = NoLocals,
                                            ![s].message = ""]
           ELSE /\ sess' = [sess EXCEPT ![s].pc = "idle", ![s].loc = NoLocals,
                                        ![s].message = ""]
                /\ UNCHANGED history
    /\ UNCHANGED <<disk, loader, udf, base_df, files, users, clock, runs>>

-----------------------------------------------------------------------------
(* src/auth.py: user_management_page *)

\* lines 66-67 of the script run the Delete button starts: both files are loaded
um_load(s) ==
    /\ sess[s].pc = "idle"
    /\ sess[s].username = "admin"
    /\ users \ {"admin"} # {}
    /\ sess' = [sess EXCEPT ![s].pc = "um_delete", ![s].raised = "none",
                            ![s].message = "", ![s].loc.users = users,
                            ![s].loc.history = history]
    /\ UNCHANGED <<disk, loader, udf, base_df, files, history, users, clock, runs>>

\* lines 69-80: the pressed button's user is popped from both dicts, both are saved
um_delete(s, user) ==
    /\ sess[s].pc = "um_delete"
    /\ user \in sess[s].loc.users
    /\ user # "admin"
    /\ users' = sess[s].loc.users \ {user}
    /\ history' = Pop(sess[s].loc.history, user)
    /\ sess' = [sess EXCEPT ![s].pc = "idle", ![s].loc = NoLocals]
    /\ UNCHANGED <<disk, loader, udf, base_df, files, clock, runs>>

-----------------------------------------------------------------------------
(* The environment *)

\* a database file is deleted outside the application (src/ui.py line 138:
\* "File not found (may have been deleted externally)")
delete_file(p) ==
    /\ files[p].exists
    /\ \A s \in Sessions : ~(sess[s].pc \in {"gen_insert", "gen_finish"} /\ sess[s].loc.db_path = p)
    /\ files' = [files EXCEPT ![p] = NoFile]
    /\ UNCHANGED <<disk, loader, udf, base_df, history, users, sess, clock, runs>>

-----------------------------------------------------------------------------
(* src/database.py: load_base_data, lines 13-35 *)

\* concurrent executions of the body of load_base_data
Loaders == {"l1", "l2"}

\* rows of the sheet FINAL_POPULATION: birth date absent or present
ExcelRows ==
    { [COUNTER |-> 1,   FAMILY_ID |-> 1, PERSON_ID |-> 1, BIRTH_DATE |-> Some("1900-01-01")],
      [COUNTER |-> 31,  FAMILY_ID |-> 1, PERSON_ID |-> 2, BIRTH_DATE |-> Null],
      [COUNTER |-> 199, FAMILY_ID |-> 2, PERSON_ID |-> 1, BIRTH_DATE |-> Some("1900-01-02")] }

\* lines 24-27: days from 1899-12-30 to the birth date, None when absent
BirthDateSerial(x) ==
    IF x = Null THEN Null
    ELSE IF x = Some("1900-01-01") THEN Some(2)
    ELSE Some(3)

\* lines 28-31: the serial formatted with "%A, %B %d, %Y", None when absent
DateOfBirth(x) ==
    IF x = Null THEN Null
    ELSE IF x = Some(2) THEN Some("Monday, January 01, 1900")
    ELSE Some("Tuesday, January 02, 1900")

\* lines 24-31 on one row: the two columns are added
NormalizedRow(r) ==
    [COUNTER |-> r.COUNTER, FAMILY_ID |-> r.FAMILY_ID, PERSON_ID |-> r.PERSON_ID,
     BIRTH_DATE |-> r.BIRTH_DATE,
     BIRTH_DATE_SERIAL |-> BirthDateSerial(r.BIRTH_DATE),
     Date_of_Birth |-> DateOfBirth(BirthDateSerial(r.BIRTH_DATE))]

\* lines 21-31 on the sheet
Normalized(rows) == [i \in 1 .. Len(rows) |-> NormalizedRow(rows[i])]

\* BASE_PARQUET absent
NoParquet == [exists |-> FALSE, complete |-> FALSE, rows |-> <<>>, writers |-> {}]

\* the files of an installation before the first load: the sheet, no cache
InstalledDisk == [excel |-> [exists |-> TRUE, rows |-> <<>>], parquet |-> NoParquet]

\* an invocation that has not started or has returned
NoLoader == [pc |-> "none", df |-> <<>>, raised |-> "none"]
NoLoaders == [i \in Loaders |-> NoLoader]

\* lines 16-18: the two existence tests of a call of load_base_data()
load_base_data(i) ==
    /\ loader[i].pc = "called"
    /\ IF disk.parquet.exists
       THEN loader' = [loader EXCEPT ![i].pc = "read"]
       ELSE IF ~disk.excel.exists
            THEN loader' = [loader EXCEPT ![i].pc = "returned",
                                          ![i].raised = "FileNotFoundError"]
            ELSE loader' = [loader EXCEPT ![i].pc = "convert"]
    /\ UNCHANGED <<disk, udf, base_df, files, history, users, sess, clock, runs>>

\* lines 21-31: read_excel and the two computed columns
convert(i) ==
    /\ loader[i].pc = "convert"
    /\ loader' = [loader EXCEPT ![i].pc = "to_parquet",
                                ![i].df = Normalized(disk.excel.rows)]
    /\ UNCHANGED <<disk, udf, base_df, files, history, users, sess, clock, runs>>

\* line 33, first half: df.to_parquet(BASE_PARQUET) opens the path itself for
\* writing, which creates the file or truncates the one that is there; no
\* lock is taken and no temporary name is used
to_parquet_open(i) ==
    /\ loader[i].pc = "to_parquet"
    /\ disk' = [disk EXCEPT !.parquet =
                   [exists |-> TRUE, complete |-> FALSE, rows |-> <<>>,
                    writers |-> disk.parquet.writers \cup {i}]]
    /\ loader' = [loader EXCEPT ![i].pc = "writing"]
    /\ UNCHANGED <<udf, base_df, files, history, users, sess, clock, runs>>

\* line 33, second half: the writer has written its bytes and closes.  While
\* another writer that truncated the file is still writing, the file may or
\* may not hold all of its bytes.
to_parquet_close(i) ==
    /\ loader[i].pc = "writing"
    /\ \E complete \in BOOLEAN :
          /\ (disk.parquet.writers \ {i} = {}) => complete
          /\ disk' = [disk EXCEPT !.parquet =
                         [exists |-> TRUE, complete |-> complete,
                          rows |-> IF complete THEN loader[i].df ELSE <<>>,
                          writers |-> disk.parquet.writers \ {i}]]
    /\ loader' = [loader EXCEPT ![i].pc = "read"]
    /\ UNCHANGED <<udf, base_df, files, history, users, sess, clock, runs>>

\* line 35: return pd.read_parquet(BASE_PARQUET).  A file that is not whole
\* makes the reader raise or return what it could decode.
read_parquet(i) ==
    /\ loader[i].pc = "read"
    /\ IF disk.parquet.complete
       THEN loader' = [loader EXCEPT ![i].pc = "returned", ![i].df = disk.parquet.rows]
       ELSE \E raised \in {"ArrowInvalid", "none"} :
               loader' = [loader EXCEPT ![i].pc = "returned", ![i].df = <<>>,
                                        ![i].raised = raised]
    /\ UNCHANGED <<disk, udf, base_df, files, history, users, sess, clock, runs>>

-----------------------------------------------------------------------------
(* The application: two browser sessions over the shared files *)

\* the base dataset of the application specification: one record
AppBase == << CHOOSE r \in BaseRows : r.COUNTER = 31 >>

Init ==
    /\ udf = [village_id |-> 0, counter |-> 0, called |-> FALSE,
              result |-> [raised |-> "none", value |-> 0]]
    /\ base_df = AppBase
    /\ files = [p \in Paths |-> NoFile]
    /\ history = EmptyDict
    /\ users = AllUsers
    /\ sess \in { [s \in Sessions |-> NewSession(IF s = "s1" THEN "admin" ELSE u)] : u \in AllUsers }
    /\ clock = 0
    /\ runs = 0
    /\ disk = InstalledDisk
    /\ loader = NoLoaders

Next ==
    \/ \E s \in Sessions, num \in WidgetValues : click_generate(s, num)
    \/ \E s \in Sessions : gen_insert(s)
    \/ \E s \in Sessions : gen_finish(s)
    \/ \E s \in Sessions : gen_save(s)
    \/ \E s \in Sessions : storage_error(s)
    \/ \E s \in Sessions, k \in 1 .. MaxRuns : select_database(s, k)
    \/ \E s \in Sessions : sql_explorer(s)
    \/ \E s \in Sessions, k \in 1 .. MaxRuns : load_db_from_history(s, k)
    \/ \E s \in Sessions : prune_load(s)
    \/ \E s \in Sessions : prune_save(s)
    \/ \E s \in Sessions : um_load(s)
    \/ \E s \in Sessions, user \in AllUsers : um_delete(s, user)
    \/ \E p \in Paths : delete_file(p)

Spec == Init /\ [][Next]_vars

-----------------------------------------------------------------------------
(* The synthesis operation called as a function: one caller, one call, any
   village count, any base dataset of at most MaxBase records *)

InitSynth ==
    /\ udf = [village_id |-> 0, counter |-> 0, called |-> FALSE,
              result |-> [raised |-> "none", value |-> 0]]
    /\ base_df \in SeqsUpTo(BaseRows, MaxBase)
    /\ files = [p \in Paths |-> NoFile]
    /\ history = EmptyDict
    /\ users = AllUsers
    /\ sess = [s \in Sessions |-> NewSession("admin")]
    /\ clock = 0
    /\ runs = 0
    /\ disk = InstalledDisk
    /\ loader = NoLoaders

NextSynth ==
    \/ \E num \in ValidCounts \cup InvalidCounts : runs = 0 /\ generate_database("s1", num)
    \/ gen_insert("s1")
    \/ gen_finish("s1")
    \/ gen_save("s1")
    \/ storage_error("s1")

SpecSynth == InitSynth /\ [][NextSynth]_vars

-----------------------------------------------------------------------------
(* The mapping called as a function *)

InitMap ==
    /\ udf \in { [village_id |-> v, counter |-> c, called |-> FALSE,
                  result |-> [raised |-> "none", value |-> 0]] :
                 v \in MapVillages, c \in MapCounters }
    /\ base_df = <<>>
    /\ files = [p \in Paths |-> NoFile]
    /\ history = EmptyDict
    /\ users = AllUsers
    /\ sess = [s \in Sessions |-> NewSession("admin")]
    /\ clock = 0
    /\ runs = 0
    /\ disk = InstalledDisk
    /\ loader = NoLoaders

\* one call get_marriage_to_village_id(village_id, counter) with the drawn arguments
call_get_marriage ==
    /\ ~udf.called
    /\ udf' = [udf EXCEPT !.called = TRUE,
                          !.result = get_marriage_to_village_id(udf.village_id, udf.counter)]
    /\ UNCHANGED <<disk, loader, base_df, files, history, users, sess, clock, runs>>

NextMap == call_get_marriage

SpecMap == InitMap /\ [][NextMap]_vars

-----------------------------------------------------------------------------
(* The loader: two first invocations of load_base_data at the same time, the
   cache absent, the sheet with at most MaxSheet rows or removed *)

MaxSheet == 2

InitLoader ==
    /\ udf = [village_id |-> 0, counter |-> 0, called |-> FALSE,
              result |-> [raised |-> "none", value |-> 0]]
    /\ base_df = <<>>
    /\ files = [p \in Paths |-> NoFile]
    /\ history = EmptyDict
    /\ users = AllUsers
    /\ sess = [s \in Sessions |-> NewSession("admin")]
    /\ clock = 0
    /\ runs = 0
    /\ disk \in { [excel |-> [exists |-> TRUE, rows |-> rows], parquet |-> NoParquet] :
                  rows \in SeqsUpTo(ExcelRows, MaxSheet) }
               \cup { [excel |-> [exists |-> FALSE, rows |-> <<>>], parquet |-> NoParquet] }
    /\ loader = [i \in Loaders |-> [NoLoader EXCEPT !.pc = "called"]]

NextLoader ==
    \/ \E i \in Loaders : load_base_data(i)
    \/ \E i \in Loaders : convert(i)
    \/ \E i \in Loaders : to_parquet_open(i)
    \/ \E i \in Loaders : to_parquet_close(i)
    \/ \E i \in Loaders : read_parquet(i)

SpecLoader == InitLoader /\ [][NextLoader]_vars

-----------------------------------------------------------------------------
(* Helpers of the properties *)

\* floor((x - 1) / 28): the number of the 28-village super-block of village x
SuperBlock(x) == (x - 1) \div 28

\* a positive multiple of 28 within the configured inclusive range
IsValidCount(n) == n % 28 = 0 /\ MIN_VILLAGES <= n /\ n <= MAX_VILLAGES

\* session s is inside generate_database, after the given statement
Running(s) == sess[s].pc \in {"gen_insert", "gen_finish", "gen_save"}
Inserted(s) == sess[s].pc \in {"gen_finish", "gen_save"}

\* the rows of the table session s has filled
RowsOf(s) == files[sess[s].loc.db_path].rows

\* the columns a row copies from its base record
BaseColumns(r) ==
    [COUNTER |-> r.COUNTER, FAMILY_ID |-> r.FAMILY_ID, PERSON_ID |-> r.PERSON_ID,
     BIRTH_DATE_SERIAL |-> r.BIRTH_DATE, Date_of_Birth |-> r.Date_of_Birth]

\* a is a subsequence of b: the elements of a occur in b in the same order
RECURSIVE IsSubseq(_, _)
IsSubseq(a, b) ==
    IF a = <<>> THEN TRUE
    ELSE IF b = <<>> THEN FALSE
    ELSE IF Head(a) = Head(b) THEN IsSubseq(Tail(a), Tail(b))
    ELSE IsSubseq(a, Tail(b))

\* the entries of the list whose table exists
Live(entries) == SelectSeq(entries, LAMBDA e : files[e.db_path].exists)

-----------------------------------------------------------------------------
(* Properties *)

\* C1: for every village_id >= 1 and counter >= 1 the value returned by
\* get_marriage_to_village_id lies in the super-block of village_id:
\* floor((result - 1) / 28) = floor((village_id - 1) / 28).
C1_SameSuperBlock ==
    (udf.called /\ udf.village_id >= 1 /\ udf.counter >= 1)
        => /\ udf.result.raised = "none"
           /\ SuperBlock(udf.result.value) = SuperBlock(udf.village_id)

\* C1 witness: a call in the second super-block with a counter past the cycle
C1_Witness ==
    udf.called /\ udf.village_id = 56 /\ udf.counter = 197 /\ udf.result.value = 29

\* C2: in a run with a valid count N, every row's VILLAGE_ID and
\* MARRIED_TO_VILLAGE_ID lie in 1 .. N.
C2_IdsInRange ==
    \A s \in Sessions :
        (Inserted(s) /\ IsValidCount(sess[s].loc.num_villages)) =>
            \A k \in DOMAIN RowsOf(s) :
                /\ RowsOf(s)[k].VILLAGE_ID \in 1 .. sess[s].loc.num_villages
                /\ RowsOf(s)[k].MARRIED_TO_VILLAGE_ID \in 1 .. sess[s].loc.num_villages

\* C2 witness: a filled table of 56 villages whose last village marries into 29
C2_Witness ==
    /\ Inserted("s1") /\ sess["s1"].loc.num_villages = 56
    /\ \E k \in DOMAIN RowsOf("s1") :
          RowsOf("s1")[k].VILLAGE_ID = 56 /\ RowsOf("s1")[k].MARRIED_TO_VILLAGE_ID = 29

\* C3 (the claim as stated): a call of generate_database with a count that is
\* not a multiple of 28 in [28, 280] creates no table and no ledger entry.
C3_InvalidCountRejected ==
    /\ \A s \in Sessions : Running(s) => IsValidCount(sess[s].loc.num_villages)
    /\ \A u \in DOMAIN history : \A i \in DOMAIN history[u] :
          IsValidCount(history[u][i].num_villages)

\* C4 (the claim as stated): once a run has failed, no partially written
\* database file is left: a file without its index belongs to a run in progress.
C4_PartialOutputDiscarded ==
    \A p \in Paths :
        (files[p].exists /\ ~files[p].indexed) =>
            \E s \in Sessions : Running(s) /\ sess[s].loc.db_path = p

\* C5 (the claim as stated): no step edits, reorders or removes a ledger
\* entry whose table exists.
C5_LedgerAppendOnly ==
    [][\A u \in DOMAIN history :
          IsSubseq(Live(history[u]), Get(history', u))]_vars

\* C6 (the claim as stated): the save of a synthesis run or of a prune never
\* drops another entry whose table exists from the history file.
C6_NoLostEntry ==
    [][\A s \in Sessions :
          (sess[s].pc \in {"gen_save", "prune_save"} /\ sess'[s].pc = "idle") =>
              \A u \in DOMAIN history :
                  IsSubseq(Live(history[u]), Get(history', u))]_vars

\* C7: a run with a valid count V over a base dataset of B records fills the
\* table with exactly V * B rows, one per pair of a village in 1 .. V and a base
\* record, and the serial numbers are exactly 1 .. V * B.
C7_RowCount ==
    \A s \in Sessions :
        (Inserted(s) /\ IsValidCount(sess[s].loc.num_villages)) =>
            LET V == sess[s].loc.num_villages
                B == Len(base_df)
                rows == RowsOf(s)
            IN  /\ Len(rows) = V * B
                /\ { rows[k].SERIAL_NO : k \in DOMAIN rows } = 1 .. (V * B)
                /\ \A k \in DOMAIN rows : rows[k].VILLAGE_ID \in 1 .. V
                /\ \A v \in 1 .. V :
                      /\ Cardinality({ k \in DOMAIN rows : rows[k].VILLAGE_ID = v }) = B
                      /\ \A i \in DOMAIN base_df :
                            Cardinality({ k \in DOMAIN rows :
                                            /\ rows[k].VILLAGE_ID = v
                                            /\ BaseColumns(rows[k]) = base_df[i] })
                              = Cardinality({ j \in DOMAIN base_df : base_df[j] = base_df[i] })

\* C7 witness: 56 villages over two base records give 112 rows
C7_Witness ==
    /\ Inserted("s1") /\ sess["s1"].loc.num_villages = 56 /\ Len(base_df) = 2
    /\ Len(RowsOf("s1")) = 112

\* C8: the row of village v and 0-based base position idx has serial number
\* (v - 1) * B + idx + 1: serials follow village ascending, then base order.
C8_SerialOrder ==
    \A s \in Sessions :
        (Inserted(s) /\ IsValidCount(sess[s].loc.num_villages)) =>
            LET V == sess[s].loc.num_villages
                B == Len(base_df)
                rows == RowsOf(s)
            IN  \A v \in 1 .. V : \A idx \in 0 .. (B - 1) :
                    LET n == (v - 1) * B + idx + 1
                    IN  /\ n \in DOMAIN rows
                        /\ rows[n].SERIAL_NO = n
                        /\ rows[n].VILLAGE_ID = v
                        /\ BaseColumns(rows[n]) = base_df[idx + 1]

\* C8 witness: two different base records, and the second record of village 2
\* holds serial number 4
C8_Witness ==
    /\ Inserted("s1") /\ Len(base_df) = 2 /\ base_df[1] # base_df[2]
    /\ IsValidCount(sess["s1"].loc.num_villages)
    /\ RowsOf("s1")[4].VILLAGE_ID = 2
    /\ RowsOf("s1")[4].COUNTER = base_df[2].COUNTER

\* the rows of village v in ascending serial number
VillageRows(rows, v) == SelectSeq(rows, LAMBDA r : r.VILLAGE_ID = v)

\* C9: the row at 0-based base position idx of village v is MALE exactly when
\* (idx is even) = (v is odd); consecutive rows of a village alternate, and the
\* MALE and FEMALE counts of a village differ by at most 1.
C9_GenderCheckerboard ==
    \A s \in Sessions :
        (Inserted(s) /\ IsValidCount(sess[s].loc.num_villages)) =>
            \A v \in 1 .. sess[s].loc.num_villages :
                LET vr == VillageRows(RowsOf(s), v)
                    males == Cardinality({ j \in DOMAIN vr : vr[j].GENDER = "MALE" })
                    females == Cardinality({ j \in DOMAIN vr : vr[j].GENDER = "FEMALE" })
                IN  /\ \A j \in DOMAIN vr :
                          (vr[j].GENDER = "MALE") <=> (((j - 1) % 2 = 0) = (v % 2 = 1))
                    /\ \A j \in DOMAIN vr : vr[j].GENDER \in {"MALE", "FEMALE"}
                    /\ \A j \in 1 .. (Len(vr) - 1) : vr[j].GENDER # vr[j + 1].GENDER
                    /\ males - females \in {-1, 0, 1}

\* C9 witness: three base records; village 1 is MALE, FEMALE, MALE and
\* village 2 is FEMALE, MALE, FEMALE
C9_Witness ==
    /\ Inserted("s1") /\ Len(base_df) = 3
    /\ IsValidCount(sess["s1"].loc.num_villages)
    /\ RowsOf("s1")[1].GENDER = "MALE" /\ RowsOf("s1")[2].GENDER = "FEMALE"
    /\ RowsOf("s1")[3].GENDER = "MALE" /\ RowsOf("s1")[4].GENDER = "FEMALE"
    /\ RowsOf("s1")[5].GENDER = "MALE" /\ RowsOf("s1")[6].GENDER = "FEMALE"

\* C11: the result depends on the counter only through ((c - 1) mod 196) + 1:
\* counters congruent modulo 196 give the same result for the same village.
C11_CounterPeriod ==
    (udf.called /\ udf.village_id >= 1 /\ udf.counter >= 1) =>
        \A c2 \in { udf.counter - 196, udf.counter + 196, ((udf.counter - 1) % 196) + 1 } :
            c2 >= 1 => get_marriage_to_village_id(udf.village_id, c2) = udf.result

\* C11 witness: counter 225 (the second block of the second cycle) gives
\* village 1 the result of counter 29
C11_Witness ==
    udf.called /\ udf.village_id = 1 /\ udf.counter = 225 /\ udf.result.value = 6

\* C12: a call with village_id >= 1 and counter >= 1 returns a value; a call
\* with village_id < 1 or counter < 1 raises and returns nothing.
C12_TotalAndGuarded ==
    udf.called =>
        /\ (udf.village_id >= 1 /\ udf.counter >= 1) =>
              (udf.result.raised = "none" /\ udf.result.value >= 1)
        /\ (udf.village_id < 1 \/ udf.counter < 1) => udf.result.raised = "ValueError"

\* C12 witness: village_id = 0 with a valid counter raises
C12_Witness ==
    udf.called /\ udf.village_id = 0 /\ udf.counter = 1 /\ udf.result.raised = "ValueError"

\* the seven steps of the specification's section 4.2
Reference(village_id, counter) ==
    LET c          == ((counter - 1) % 196) + 1
        block      == (c - 1) \div 28
        base_add   == 1 + 4 * block
        pos        == c - 28 * block
        add        == IF pos % 4 \in {1, 2} THEN base_add ELSE base_add + 2
        super_base == ((village_id - 1) \div 28) * 28
        local_id   == village_id - super_base
    IN  ((local_id + add - 1) % 28) + 1 + super_base

\* C13: for village_id >= 1 and counter >= 1 the function returns the result
\* of the seven-step reference computation, with block in 0 .. 6 and pos in
\* 1 .. 28; (1, 1) yields 2.
C13_MatchesReference ==
    (udf.called /\ udf.village_id >= 1 /\ udf.counter >= 1) =>
        /\ udf.result.value = Reference(udf.village_id, udf.counter)
        /\ Block(udf.counter) \in 0 .. 6
        /\ Pos(udf.counter) \in 1 .. 28
        /\ (udf.village_id = 1 /\ udf.counter = 1) => udf.result.value = 2

\* C13 witness: the call (1, 1) has returned 2
C13_Witness ==
    udf.called /\ udf.village_id = 1 /\ udf.counter = 1 /\ udf.result.value = 2

\* the entries of owner u in the ledger h
EntriesOf(h, u) == { Get(h, u)[i] : i \in 1 .. Len(Get(h, u)) }

\* this step is the append of session s: it leaves generate_database at its
\* end (line 139), after the index was built, the handle closed (lines
\* 115-119) and the session pointed at the new database (lines 122-128)
Appends(s, u, e) ==
    /\ sess[s].pc = "gen_save" /\ sess'[s].pc = "idle"
    /\ sess[s].raised = "none"
    /\ sess[s].username = u
    /\ sess[s].ss.db_generated /\ sess[s].ss.db_id = e.db_id
    /\ sess[s].ss.db_path = e.db_path
    /\ e = Entry(sess[s].loc.db_id, sess[s].loc.db_path, sess[s].loc.num_villages, clock')

\* this step writes back an entry that an earlier append wrote and that
\* session s holds in the copy of the ledger it loaded
WritesBack(s, u, e) == sess[s].pc # "idle" /\ e \in EntriesOf(sess[s].loc.history, u)

\* this step is the failure of a run or click of session s: an exception
\* leaves generate_database, or the count is rejected
FailsIn(s) ==
    \/ sess[s].pc \in {"gen_insert", "gen_finish", "gen_save"} /\ sess'[s].pc = "idle"
       /\ sess'[s].raised # "none"
    \/ sess[s].pc = "idle" /\ sess'[s] # sess[s]
       /\ sess'[s].message = "Number of villages must be a multiple of 28!"

\* C14: an entry enters the ledger only in the last step of a run whose table
\* was filled and indexed and whose handle was closed, and the step in which a
\* run fails (count rejected, or exception out of generate_database) leaves
\* the ledger unchanged.
C14_EntryOnlyAfterSuccess ==
    [][ /\ \A u \in AllUsers : \A e \in EntriesOf(history', u) \ EntriesOf(history, u) :
              \E s \in Sessions : Appends(s, u, e) \/ WritesBack(s, u, e)
        /\ \A s \in Sessions : FailsIn(s) => history' = history ]_vars

\* C14 witness: one run has written its entry and another run has failed
\* with a storage error
C14_Witness ==
    /\ \E e \in EntriesOf(history, "admin") : files[e.db_path].indexed
    /\ \E s \in Sessions : sess[s].raised = "StorageError" /\ sess[s].pc = "idle"

\* the ledger h without the entries of owner u for the table at path
Pruned(h, u, path) ==
    [o \in AllUsers |-> IF o = u THEN Filtered(Get(h, o), path) ELSE Get(h, o)]

\* the lists of all owners in the ledger h
Lists(h) == [o \in AllUsers |-> Get(h, o)]

\* this step ends an attempt of session s to load the table of entry e of
\* owner u, which is missing: the own-list loader saves (src/database.py line
\* 163), or the selection of an admin database reports (src/ui.py line 220)
MissingLoad(s, u, e) ==
    /\ e \in EntriesOf(history, u)
    /\ ~files[e.db_path].exists
    /\ \/ /\ sess[s].pc = "prune_save" /\ sess'[s].pc = "idle"
          /\ u = sess[s].username /\ e.db_path = sess[s].loc.path
       \/ /\ sess[s].pc = "idle" /\ sess'[s] # sess[s]
          /\ u = "admin" /\ sess[s].username # "admin"
          /\ sess'[s].message = "Database file not found on server."

\* this step is a load by session s of a table that exists
ExistingLoad(s) ==
    /\ sess[s].pc = "idle" /\ sess'[s].pc = "idle"
    /\ sess'[s].ss.db_path # sess[s].ss.db_path
    /\ files[sess'[s].ss.db_path].exists

\* C15: a load that finds the table of a ledger entry missing removes that
\* entry and changes nothing else in the ledger; a load of a table that exists
\* leaves the ledger unchanged; and an entry whose table is missing leaves the
\* ledger only in such a load of it.
C15_LazyPrune ==
    [][ /\ \A s \in Sessions : \A u \in AllUsers : \A e \in EntriesOf(history, u) :
              MissingLoad(s, u, e) => Lists(history') = Pruned(history, u, e.db_path)
        /\ \A s \in Sessions : ExistingLoad(s) => history' = history
        /\ \A u \in AllUsers : \A e \in EntriesOf(history, u) \ EntriesOf(history', u) :
              ~files[e.db_path].exists => \E s \in Sessions : MissingLoad(s, u, e) ]_vars

\* C16: the table of a completed run that a ledger entry references is changed
\* by no step of the application: not by a later run, a load or an explorer
\* access (the one step that may change it is the removal of the file from
\* outside the application).
C16_OldTablesUntouched ==
    [][ \A u \in AllUsers : \A e \in EntriesOf(history, u) :
            (files[e.db_path].indexed /\ files'[e.db_path] # files[e.db_path])
                => (files'[e.db_path] = NoFile /\ sess' = sess) ]_vars

\* C17: while the cache is written, one invocation at most is writing it, and
\* no invocation reads the cache file while it is not written whole.
C17_ExclusiveCacheWrite ==
    [][ /\ Cardinality(disk'.parquet.writers) <= 1
        /\ \A i \in Loaders :
              (loader[i].pc = "read" /\ loader'[i].pc = "returned") => disk.parquet.complete ]_vars

====
